---- MODULE Spec2Model ----
(***************************************************************************)
(* Model of the transaction tracker returned by sungwon(api, outputApi).   *)
(* The tracker is a closure over three pieces of state (txMap, parentMap,  *)
(* lastFinalized) and handles one event at a time: newBlock,               *)
(* newTransaction, finalized.  Every handler is one action.  The calls it  *)
(* makes on outputApi and api are recorded in history variables.  The      *)
(* handlers are those of the revision with isDescendant and status arrays  *)
(* (txMap: Map<string, string[]>).                                         *)
(***************************************************************************)
EXTENDS Integers, Sequences, FiniteSets, TLC

\* Number of events delivered to the tracker in one behaviour.
MaxEvents == 4

\* Transaction values, announced block hashes, and a hash that is never
\* announced by a newBlock event (the parent of the first blocks).
Txs == {"t1", "t2"}
Blocks == {"b1", "b2", "b3"}
Genesis == "g"
Hashes == Blocks \cup {Genesis}

\* The result of Map.get on a missing key.
Undefined == "undefined"
\* The initial value of lastFinalized.
NoHash == ""

VARIABLES
    txMap,          \* Map<string, string[]> in insertion order: seq of [tx, status]
    parentMap,      \* Map<string, string>: function from recorded hashes to parent
    lastFinalized,  \* the finality cursor
    api,            \* the provider's answers (getBody, isTxValid, isTxSuccessful)
    pc,             \* "ready", or how the last handler failed to return
    event,          \* the last event handled
    pre,            \* the tracker state before the last event
    evSettled,      \* onTxSettled calls of the last event, in order
    evDone,         \* onTxDone calls of the last event, in order
    evUnpin,        \* api.unpin calls of the last event, in order
    cursorTrace,    \* the values assigned to lastFinalized by the last event
    bodyCalls,      \* the hashes passed to getBody by the last event, in order
    succCalls,      \* the (block, tx) pairs passed to isTxSuccessful by the last event
    settledLog,     \* all onTxSettled calls so far
    doneLog,        \* all onTxDone calls so far
    unpinned,       \* all hashes passed to api.unpin so far
    arrival,        \* the values of newTransaction events, in order of first arrival
    observed,       \* the (tx, block) pairs: newBlock(block) came with tx tracked and in its body
    answer,         \* the result of the last isDescendant call made on its own
    nEvents         \* events handled so far

vars == <<txMap, parentMap, lastFinalized, api, pc, event, pre, evSettled, evDone,
          evUnpin, cursorTrace, bodyCalls, succCalls, settledLog, doneLog,
          unpinned, arrival, observed, answer, nEvents>>

----------------------------------------------------------------------------
\* The chain data provider: fixed answers per (block, tx).

ProviderA ==
    [ body  |-> [h \in Hashes |->
                   CASE h = "b1" -> <<"t2", "t1">>
                     [] h = "b2" -> <<"t1">>
                     [] h = "b3" -> <<"t1", "t2">>
                     [] OTHER    -> << >>],
      valid |-> {<<"b1", "t1">>, <<"b2", "t1">>, <<"b3", "t1">>, <<"b3", "t2">>},
      succ  |-> {<<"b1", "t1">>, <<"b1", "t2">>, <<"b3", "t2">>} ]

ProviderB ==
    [ body  |-> [h \in Hashes |->
                   CASE h = "b1" -> <<"t1">>
                     [] h = "b2" -> <<"t2", "t1">>
                     [] h = "g"  -> <<"t1">>
                     [] OTHER    -> << >>],
      valid |-> {<<"b2", "t1">>, <<"b2", "t2">>, <<"g", "t1">>},
      succ  |-> {<<"b2", "t2">>, <<"b1", "t1">>} ]

Providers == {ProviderA, ProviderB}

getBody(blockHash) == api.body[blockHash]
isTxValid(blockHash, tx) == <<blockHash, tx>> \in api.valid
isTxSuccessful(blockHash, tx) == <<blockHash, tx>> \in api.succ

----------------------------------------------------------------------------
\* Helpers for sequences and maps.

Range(s) == {s[i] : i \in 1..Len(s)}
Reverse(s) == [i \in 1..Len(s) |-> s[Len(s) + 1 - i]]
\* Array.prototype.includes
Includes(s, x) == x \in Range(s)

RECURSIVE Flatten(_)
Flatten(ss) == IF ss = << >> THEN << >> ELSE Head(ss) \o Flatten(Tail(ss))

\* Map.has / Map.get / Map.set
MapHas(m, k) == k \in DOMAIN m
MapGet(m, k) == IF k \in DOMAIN m THEN m[k] ELSE Undefined
\* Faulty variant: the map is replaced by one holding the new entry alone.
MapSetAlone(m, k, v) == [x \in {k} |-> v]
MapSet(m, k, v) == [x \in DOMAIN m \cup {k} |-> IF x = k THEN v ELSE m[x]]
\* JavaScript truthiness of a string | undefined
Truthy(h) == h # Undefined /\ h # ""

\* txMap.has(tx)
TxHas(tm, tx) == \E i \in 1..Len(tm) : tm[i].tx = tx
Tracked(tm) == {tm[i].tx : i \in 1..Len(tm)}
StatusOf(tm, tx) == tm[CHOOSE i \in 1..Len(tm) : tm[i].tx = tx].status

----------------------------------------------------------------------------
\* isDescendant(curBlock, oldBlock): the while loop over parentMap.  The
\* loop's state is curBlock alone, so it runs forever exactly when it comes
\* back to a hash it has already left: the result is then "loop".

RECURSIVE DescWalk(_, _, _, _, _)
DescWalk(curBlock, oldBlock, pm, lf, seen) ==
    IF ~(MapHas(pm, curBlock) /\ pm[curBlock] # lf)
      THEN "false"
      ELSE LET nxt == pm[curBlock] IN
           IF nxt = oldBlock THEN "true"
           ELSE IF nxt \in seen THEN "loop"
           ELSE DescWalk(nxt, oldBlock, pm, lf, seen \cup {nxt})

isDescendant(curBlock, oldBlock, pm, lf) ==
    DescWalk(curBlock, oldBlock, pm, lf, {curBlock})

----------------------------------------------------------------------------
\* onNewBlock

\* Faulty variant: the classification branches on isTxSuccessful before isTxValid.
SettledPayloadSuccessFirst(blockHash, curTx) ==
    IF isTxSuccessful(blockHash, curTx)
      THEN [tx |-> curTx, blockHash |-> blockHash, type |-> "valid",
            successful |-> isTxValid(blockHash, curTx)]
      ELSE [tx |-> curTx, blockHash |-> blockHash, type |-> "invalid"]

\* The payload of one onTxSettled call for curTx in blockHash.
SettledPayload(blockHash, curTx) ==
    IF isTxValid(blockHash, curTx)
      THEN [tx |-> curTx, blockHash |-> blockHash, type |-> "valid",
            successful |-> isTxSuccessful(blockHash, curTx)]
      ELSE [tx |-> curTx, blockHash |-> blockHash, type |-> "invalid"]

\* Whether onNewBlock passes (blockHash, curTx) to isTxSuccessful.
SuccAsked(blockHash, curTx) == isTxValid(blockHash, curTx)

\* Faulty variant: an empty status gets its first record; a non-empty one is
\* scanned as in the code.
PushedStatusFirstRecord(status, blockHash, pm, lf) ==
    IF Len(status) # 0
      THEN LET hits == {i \in 1..Len(status) :
                          isDescendant(blockHash, status[i], pm, lf) # "true"}
           IN status \o [k \in 1..Cardinality(hits) |-> blockHash]
      ELSE <<blockHash>>

\* Faulty variant: the block is appended regardless of the records present.
PushedStatusAppendAlways(status, blockHash, pm, lf) == Append(status, blockHash)

\* status.forEach(settledHash => if (!isDescendant(blockHash, settledHash))
\* status.push(blockHash)), guarded by status.length != 0.  forEach visits the
\* elements present when it starts, so one push per such element.
PushedStatus(status, blockHash, pm, lf) ==
    IF Len(status) # 0
      THEN LET hits == {i \in 1..Len(status) :
                          isDescendant(blockHash, status[i], pm, lf) # "true"}
           IN status \o [k \in 1..Cardinality(hits) |-> blockHash]
      ELSE status

\* The isDescendant calls of one status scan, with one that never returns.
StatusScanLoops(status, blockHash, pm, lf) ==
    \E i \in 1..Len(status) : isDescendant(blockHash, status[i], pm, lf) = "loop"

\* Faulty variant: the scan runs over the block body and looks each tx up in txMap.
SettlingEntriesBodyOrder(tm, blockTxs) ==
    LET hit == SelectSeq(blockTxs, LAMBDA t : TxHas(tm, t))
    IN [i \in 1..Len(hit) |-> [tx |-> hit[i], status |-> StatusOf(tm, hit[i])]]

\* The entries of txMap, in insertion order, whose tx is in the block body.
SettlingEntries(tm, blockTxs) == SelectSeq(tm, LAMBDA e : Includes(blockTxs, e.tx))

\* txMap after the forEach of onNewBlock.
NewBlockTxMap(tm, blockHash, blockTxs, pm, lf) ==
    [i \in 1..Len(tm) |->
        IF Includes(blockTxs, tm[i].tx)
          THEN [tx |-> tm[i].tx,
                status |-> PushedStatus(tm[i].status, blockHash, pm, lf)]
          ELSE tm[i]]

\* Faulty variant: a tx that has been reported settled once is never reported again
\* (a single "settled" flag per tx instead of one record per fork).
NewBlockSettledOnce(tm, blockHash, blockTxs) ==
    LET es == SelectSeq(SettlingEntries(tm, blockTxs),
                        LAMBDA e : \A i \in 1..Len(settledLog) : settledLog[i].tx # e.tx)
    IN [i \in 1..Len(es) |-> SettledPayload(blockHash, es[i].tx)]

\* Faulty variant: every transaction of the body is reported, tracked or not.
NewBlockSettledWholeBody(tm, blockHash, blockTxs) ==
    [i \in 1..Len(blockTxs) |-> SettledPayload(blockHash, blockTxs[i])]

\* The onTxSettled calls of onNewBlock, in order.
NewBlockSettled(tm, blockHash, blockTxs) ==
    LET es == SettlingEntries(tm, blockTxs)
    IN [i \in 1..Len(es) |-> SettledPayload(blockHash, es[i].tx)]

----------------------------------------------------------------------------
\* onFinalized

\* The chain of recursive onFinalized calls started by onFinalized(blockHash):
\* each call recurses into the parent when it is truthy and differs from
\* lastFinalized, which no call changes before the innermost one returns.  A
\* call's decision depends on its hash alone, so the recursion never ends
\* (the stack overflows) exactly when it reaches a hash already on the stack.
RECURSIVE FinalizedCalls(_, _, _)
FinalizedCalls(stack, pm, lf) ==
    LET parentHash == MapGet(pm, stack[Len(stack)]) IN
    IF Truthy(parentHash) /\ parentHash # lf
      THEN IF Includes(stack, parentHash)
             THEN [ok |-> FALSE, calls |-> stack]
             ELSE FinalizedCalls(Append(stack, parentHash), pm, lf)
      ELSE [ok |-> TRUE, calls |-> stack]

\* Faulty variant: each call scans and assigns before it recurses into the parent, so
\* the newest block comes first.
ReplayPathNewestFirst(blockHash, pm, lf) == FinalizedCalls(<<blockHash>>, pm, lf).calls

\* The blocks processed by onFinalized(blockHash), in the order in which their
\* transactions are scanned and lastFinalized is assigned: the recursion runs
\* before the scan, so the innermost (oldest) call comes first.
ReplayPath(blockHash, pm, lf) == Reverse(FinalizedCalls(<<blockHash>>, pm, lf).calls)

ReplayReturns(blockHash, pm, lf) == FinalizedCalls(<<blockHash>>, pm, lf).ok

\* Faulty variant: the scan does not test status.length.
DoneEntriesAnyStatus(tm, blockTxs) == SelectSeq(tm, LAMBDA e : Includes(blockTxs, e.tx))

\* The entries of txMap, in insertion order, that one call of onFinalized
\* reports done: in the body, with a non-empty status.
DoneEntries(tm, blockTxs) ==
    SelectSeq(tm, LAMBDA e : Includes(blockTxs, e.tx) /\ Len(e.status) # 0)

\* The onTxDone calls of one call of onFinalized (without its recursion).
DoneCalls(tm, blockHash) ==
    LET es == DoneEntries(tm, getBody(blockHash))
    IN [i \in 1..Len(es) |->
          [tx |-> es[i].tx, blockHash |-> blockHash, type |-> "valid",
           successful |-> isTxSuccessful(blockHash, es[i].tx)]]

\* All onTxDone calls of onFinalized(blockHash), recursion included.
FinalizedDone(tm, blockHash, pm, lf) ==
    LET path == ReplayPath(blockHash, pm, lf)
    IN Flatten([i \in 1..Len(path) |-> DoneCalls(tm, path[i])])

\* onFinalized(blockHash) as a function of the tracker state: whether it
\* returns, the successive values it assigns to lastFinalized, and its onTxDone
\* calls.  A stack overflow unwinds before any scan or assignment.
OnFinalized(tm, pm, lf, blockHash) ==
    IF ReplayReturns(blockHash, pm, lf)
      THEN [ok |-> TRUE,
            assigned |-> ReplayPath(blockHash, pm, lf),
            done |-> FinalizedDone(tm, blockHash, pm, lf)]
      ELSE [ok |-> FALSE, assigned |-> << >>, done |-> << >>]

----------------------------------------------------------------------------
\* The state machine.

TrackerState == [txMap |-> txMap, parentMap |-> parentMap,
                 lastFinalized |-> lastFinalized]

NoEvent == [type |-> "none", blockHash |-> "", parent |-> "", value |-> ""]

Init ==
    /\ txMap = << >>
    /\ parentMap = << >>
    /\ lastFinalized = NoHash
    /\ api \in Providers
    /\ pc = "ready"
    /\ event = NoEvent
    /\ pre = [txMap |-> << >>, parentMap |-> << >>, lastFinalized |-> NoHash]
    /\ evSettled = << >>
    /\ evDone = << >>
    /\ evUnpin = << >>
    /\ cursorTrace = << >>
    /\ bodyCalls = << >>
    /\ succCalls = {}
    /\ settledLog = << >>
    /\ doneLog = << >>
    /\ unpinned = {}
    /\ arrival = << >>
    /\ observed = {}
    /\ answer = "none"
    /\ nEvents = 0

Accept(ev) ==
    /\ pc = "ready"
    /\ nEvents < MaxEvents
    /\ nEvents' = nEvents + 1
    /\ event' = ev
    /\ pre' = TrackerState
    /\ UNCHANGED <<api, answer>>

\* case "newBlock": onNewBlock(event)
NewBlock(blockHash, parent) ==
    LET pm == MapSet(parentMap, blockHash, parent)
        blockTxs == getBody(blockHash)
        es == SettlingEntries(txMap, blockTxs)
        hangs == \E i \in 1..Len(es) :
                    StatusScanLoops(es[i].status, blockHash, pm, lastFinalized)
        calls == NewBlockSettled(txMap, blockHash, blockTxs)
    IN
    /\ Accept([type |-> "newBlock", blockHash |-> blockHash, parent |-> parent,
               value |-> ""])
    /\ parentMap' = pm
    /\ bodyCalls' = <<blockHash>>
    /\ IF hangs
         THEN /\ pc' = "hung"
              /\ UNCHANGED <<txMap, settledLog>>
              /\ evSettled' = << >>
              /\ succCalls' = {}
         ELSE /\ pc' = "ready"
              /\ txMap' = NewBlockTxMap(txMap, blockHash, blockTxs, pm, lastFinalized)
              /\ evSettled' = calls
              /\ settledLog' = settledLog \o calls
              /\ succCalls' = {<<blockHash, es[i].tx>> : i \in
                                 {j \in 1..Len(es) : SuccAsked(blockHash, es[j].tx)}}
    /\ evDone' = << >>
    /\ evUnpin' = << >>
    /\ cursorTrace' = << >>
    /\ observed' = observed \cup
                     {<<t, blockHash>> : t \in Tracked(txMap) \cap Range(blockTxs)}
    /\ UNCHANGED <<lastFinalized, doneLog, unpinned, arrival>>

\* Faulty variant: the value is added without the txMap.has test.
OnNewTxNoHasTest(tm, transaction) == Append(tm, [tx |-> transaction, status |-> << >>])

\* txMap after onNewTx: a missing key is added at the end with an empty status.
OnNewTx(tm, transaction) ==
    IF ~TxHas(tm, transaction)
      THEN Append(tm, [tx |-> transaction, status |-> << >>])
      ELSE tm

\* case "newTransaction": onNewTx(event)
NewTx(transaction) ==
    /\ Accept([type |-> "newTransaction", blockHash |-> "", parent |-> "",
               value |-> transaction])
    /\ txMap' = OnNewTx(txMap, transaction)
    /\ pc' = "ready"
    /\ evSettled' = << >>
    /\ evDone' = << >>
    /\ evUnpin' = << >>
    /\ cursorTrace' = << >>
    /\ bodyCalls' = << >>
    /\ succCalls' = {}
    /\ arrival' = IF Includes(arrival, transaction) THEN arrival
                                                    ELSE Append(arrival, transaction)
    /\ UNCHANGED <<parentMap, lastFinalized, settledLog, doneLog, unpinned, observed>>

\* case "finalized": onFinalized(event)
Finalized(blockHash) ==
    LET r == OnFinalized(txMap, parentMap, lastFinalized, blockHash) IN
    /\ Accept([type |-> "finalized", blockHash |-> blockHash, parent |-> "",
               value |-> ""])
    /\ bodyCalls' = FinalizedCalls(<<blockHash>>, parentMap, lastFinalized).calls
    /\ pc' = IF r.ok THEN "ready" ELSE "overflow"
    /\ lastFinalized' = IF r.ok THEN r.assigned[Len(r.assigned)] ELSE lastFinalized
    /\ cursorTrace' = r.assigned
    /\ evDone' = r.done
    /\ doneLog' = doneLog \o r.done
    /\ succCalls' = {<<r.done[i].blockHash, r.done[i].tx>> : i \in 1..Len(r.done)}
    /\ evSettled' = << >>
    /\ evUnpin' = << >>
    /\ UNCHANGED <<txMap, parentMap, settledLog, unpinned, arrival, observed>>

Next ==
    \/ \E b \in Blocks, p \in Hashes : NewBlock(b, p)
    \/ \E t \in Txs : NewTx(t)
    \/ \E h \in Hashes : Finalized(h)

Spec == Init /\ [][Next]_vars

\* The events of a hash-linked chain: a block's parent is fixed by its hash,
\* no block is its own ancestor, only announced blocks are finalized, and a
\* finalized block lies on the lineage of the cursor (ahead of it, or at or
\* behind it for a stale or duplicate event).
RECURSIVE Lineage(_, _, _)
Lineage(h, pm, acc) ==
    IF h \notin DOMAIN pm \/ pm[h] \in acc
      THEN acc
      ELSE Lineage(pm[h], pm, acc \cup {pm[h]})

ChainBlock(blockHash, parent) ==
    /\ parent # blockHash
    /\ blockHash \in DOMAIN parentMap => parentMap[blockHash] = parent
    /\ blockHash \notin Lineage(parent, parentMap, {parent})

ChainFinalized(blockHash) ==
    /\ blockHash \in DOMAIN parentMap
    /\ \/ lastFinalized = NoHash
       \/ blockHash = lastFinalized
       \/ blockHash \in Lineage(lastFinalized, parentMap, {})
       \/ lastFinalized \in Lineage(blockHash, parentMap, {})

ChainNext ==
    \/ \E b \in Blocks, p \in Hashes : ChainBlock(b, p) /\ NewBlock(b, p)
    \/ \E t \in Txs : NewTx(t)
    \/ \E h \in Hashes : ChainFinalized(h) /\ Finalized(h)

ChainSpec == Init /\ [][ChainNext]_vars

\* The event source delivers the events it has.
ChainLiveSpec == ChainSpec /\ WF_vars(ChainNext)

\* isDescendant on its own: the closure state is any acyclic parent map over
\* the announced hashes and any cursor, and the function is called on any
\* pair of hashes.
AcyclicMaps ==
    {pm \in UNION {[S -> Hashes] : S \in SUBSET Blocks} :
        \A b \in DOMAIN pm : b \notin Lineage(b, pm, {})}

DescInit ==
    /\ txMap = << >>
    /\ parentMap \in AcyclicMaps
    /\ lastFinalized \in Hashes \cup {NoHash}
    /\ api = ProviderA
    /\ pc = "ready"
    /\ event = NoEvent
    /\ pre = [txMap |-> << >>, parentMap |-> << >>, lastFinalized |-> NoHash]
    /\ evSettled = << >>
    /\ evDone = << >>
    /\ evUnpin = << >>
    /\ cursorTrace = << >>
    /\ bodyCalls = << >>
    /\ succCalls = {}
    /\ settledLog = << >>
    /\ doneLog = << >>
    /\ unpinned = {}
    /\ arrival = << >>
    /\ observed = {}
    /\ answer = "none"
    /\ nEvents = 0

CallIsDescendant(curBlock, oldBlock) ==
    /\ answer' = isDescendant(curBlock, oldBlock, parentMap, lastFinalized)
    /\ event' = [type |-> "isDescendant", blockHash |-> curBlock, parent |-> oldBlock,
                 value |-> ""]
    /\ UNCHANGED <<txMap, parentMap, lastFinalized, api, pc, pre, evSettled, evDone,
                   evUnpin, cursorTrace, bodyCalls, succCalls, settledLog, doneLog,
                   unpinned, arrival, observed, nEvents>>

DescNext == \E curBlock \in Hashes, oldBlock \in Hashes : CallIsDescendant(curBlock, oldBlock)

DescSpec == DescInit /\ [][DescNext]_vars

----------------------------------------------------------------------------
\* Reference notions used by the properties.

\* The strict ancestors of h along the recorded parent links of pm.
Ancestors(h, pm) == Lineage(h, pm, {})

\* b is the cursor lf or behind it.
AtOrBehind(b, lf, pm) == b = lf \/ b \in Ancestors(lf, pm)

\* Neither block is an ancestor of the other.
Unrelated(b1, b2, pm) ==
    b1 # b2 /\ b1 \notin Ancestors(b2, pm) /\ b2 \notin Ancestors(b1, pm)

\* The classification the provider's answers call for.
ExpectedSettled(b, t) ==
    IF <<b, t>> \in api.valid
      THEN [tx |-> t, blockHash |-> b, type |-> "valid", successful |-> <<b, t>> \in api.succ]
      ELSE [tx |-> t, blockHash |-> b, type |-> "invalid"]

ExpectedDone(b, t) ==
    [tx |-> t, blockHash |-> b, type |-> "valid", successful |-> <<b, t>> \in api.succ]

PosIn(s, x) == CHOOSE i \in 1..Len(s) : s[i] = x

FinalizedReturned == event.type = "finalized" /\ pc = "ready"
NewBlockReturned == event.type = "newBlock" /\ pc = "ready"

----------------------------------------------------------------------------
\* C1 (no redundant settlement): for every transaction, no two onTxSettled
\* calls are for the same block or for a block and one of its descendants: a
\* later newBlock on a lineage that already reported the transaction, or a
\* repeated newBlock of the same hash, reports nothing for it.
C1_NoRedundantSettlement ==
    \A i, j \in 1..Len(settledLog) :
        (i < j /\ settledLog[i].tx = settledLog[j].tx) =>
            /\ settledLog[j].blockHash # settledLog[i].blockHash
            /\ settledLog[i].blockHash \notin Ancestors(settledLog[j].blockHash, parentMap)

\* C2 (done on finalization): when finalized(b) has been processed for a
\* block b that was not at or behind the cursor, every transaction that was
\* tracked when newBlock(b) came, is in b's body and is valid in b has been
\* reported by onTxDone(t, {b, valid, isTxSuccessful(b, t)}) during that event.
C2_DoneOnFinalization ==
    FinalizedReturned =>
        \A t \in Txs :
            ( /\ <<t, event.blockHash>> \in observed
              /\ isTxValid(event.blockHash, t)
              /\ ~AtOrBehind(event.blockHash, pre.lastFinalized, pre.parentMap) )
            => ExpectedDone(event.blockHash, t) \in Range(evDone)

\* C3 (exactly-once done): onTxDone is called at most once per transaction.
C3_DoneAtMostOnce ==
    \A t \in Txs : Cardinality({i \in 1..Len(doneLog) : doneLog[i].tx = t}) <= 1

\* A transaction observed in two competing blocks, one of which has just been
\* finalized.
C3_Witness ==
    /\ FinalizedReturned
    /\ \E t \in Txs, b \in Blocks :
          /\ <<t, event.blockHash>> \in observed
          /\ <<t, b>> \in observed
          /\ Unrelated(b, event.blockHash, parentMap)

\* C4 (cursor monotonicity): every value assigned to lastFinalized, also in
\* the middle of a replay, is its previous value or a descendant of it, unless
\* the previous value is the initial sentinel.
C4_CursorMonotonic ==
    LET tr == <<pre.lastFinalized>> \o cursorTrace IN
    \A i \in 1..(Len(tr) - 1) :
        \/ tr[i] = NoHash
        \/ tr[i + 1] = tr[i]
        \/ tr[i] \in Ancestors(tr[i + 1], parentMap)

\* C5 (stale or duplicate finalization is a no-op): a finalized event for the
\* cursor block or one of its ancestors leaves the tracker state as it was and
\* makes no onTxDone, onTxSettled or unpin call.
C5_StaleFinalizedNoOp ==
    ( /\ event.type = "finalized"
      /\ AtOrBehind(event.blockHash, pre.lastFinalized, pre.parentMap) )
    => /\ TrackerState = pre
       /\ evDone = << >>
       /\ evSettled = << >>
       /\ evUnpin = << >>

\* C6 (finality replay equivalence): for a chain F1 -> F2 -> F3 of recorded
\* blocks above the cursor, the single event finalized(F3) makes the onTxDone
\* calls and ends with the lastFinalized that finalized(F1), finalized(F2),
\* finalized(F3), handled one after the other from the same state, would.
C6_Chain(F1, F2, F3, st) ==
    /\ Cardinality({F1, F2, F3}) = 3
    /\ {F1, F2, F3} \subseteq DOMAIN st.parentMap
    /\ st.parentMap[F2] = F1
    /\ st.parentMap[F3] = F2
    /\ \A F \in {F1, F2, F3} : ~AtOrBehind(F, st.lastFinalized, st.parentMap)

C6_Then(st, h) ==
    IF ~st.ok THEN st
    ELSE LET r == OnFinalized(pre.txMap, pre.parentMap, st.lastFinalized, h) IN
         [ok |-> r.ok,
          lastFinalized |-> IF r.ok THEN r.assigned[Len(r.assigned)] ELSE st.lastFinalized,
          done |-> st.done \o r.done]

C6_OneByOne(F1, F2, F3) ==
    C6_Then(C6_Then(C6_Then([ok |-> TRUE, lastFinalized |-> pre.lastFinalized,
                             done |-> << >>], F1), F2), F3)

C7_OrderPreserved ==
    \A i, j \in 1..Len(evSettled) :
        i < j => PosIn(arrival, evSettled[i].tx) < PosIn(arrival, evSettled[j].tx)

\* A newBlock event that reported two transactions whose order in the block
\* body is the reverse of their arrival order.
C7_Witness ==
    /\ NewBlockReturned
    /\ Len(evSettled) = 2
    /\ getBody(event.blockHash) = <<evSettled[2].tx, evSettled[1].tx>>

\* C8 (pruning correctness): once finalized(B) has been processed, every
\* recorded block that is neither B nor an ancestor of B is eventually passed
\* to api.unpin.
C8_Prunable(x) ==
    /\ FinalizedReturned
    /\ x \in DOMAIN parentMap
    /\ x # event.blockHash
    /\ x \notin Ancestors(event.blockHash, parentMap)

C8_PruningCorrectness ==
    \A x \in Blocks : [](C8_Prunable(x) => <>(x \in unpinned))

\* C9 (multi-fork settlement): a transaction observed in two blocks of which
\* neither is an ancestor of the other has two onTxSettled calls, one per
\* block, each classified from the provider's answers for its own block.
C9_MultiForkSettlement ==
    \A t \in Txs, b1, b2 \in Blocks :
        ( /\ <<t, b1>> \in observed
          /\ <<t, b2>> \in observed
          /\ Unrelated(b1, b2, parentMap) )
        => \E i, j \in 1..Len(settledLog) :
              /\ i # j
              /\ settledLog[i] = ExpectedSettled(b1, t)
              /\ settledLog[j] = ExpectedSettled(b2, t)

\* A transaction observed in two competing blocks that classify it differently.
C9_Witness ==
    \E t \in Txs, b1, b2 \in Blocks :
        /\ <<t, b1>> \in observed
        /\ <<t, b2>> \in observed
        /\ Unrelated(b1, b2, parentMap)
        /\ ExpectedSettled(b1, t).type # ExpectedSettled(b2, t).type

\* C10 (settlement classification): every onTxSettled call of newBlock(b) is
\* tagged b, is invalid exactly when isTxValid(b, t) is false and otherwise
\* valid with successful = isTxSuccessful(b, t); isTxSuccessful is asked only
\* for pairs that isTxValid accepts.
C10_SettlementClassification ==
    /\ \A i \in 1..Len(evSettled) :
          LET c == evSettled[i] IN
          /\ event.type = "newBlock"
          /\ c.blockHash = event.blockHash
          /\ c.type \in {"valid", "invalid"}
          /\ (c.type = "invalid") = (<<c.blockHash, c.tx>> \notin api.valid)
          /\ c.type = "valid" => c.successful = (<<c.blockHash, c.tx>> \in api.succ)
    /\ succCalls \subseteq api.valid

\* A newBlock event that reported one transaction invalid and another valid.
C10_Witness ==
    /\ NewBlockReturned
    /\ \E i, j \in 1..Len(evSettled) :
          evSettled[i].type = "invalid" /\ evSettled[j].type = "valid"

\* C11 (invalid never done): no onTxDone call is for a (block, tx) pair that
\* isTxValid rejects, so a transaction whose settlement on the finalized chain
\* is invalid gets no onTxDone.
C11_InvalidNeverDone ==
    \A i \in 1..Len(doneLog) : <<doneLog[i].blockHash, doneLog[i].tx>> \in api.valid

\* A block in which a tracked transaction was observed invalid has been
\* finalized.
C11_Witness ==
    /\ FinalizedReturned
    /\ \E t \in Txs :
          /\ <<t, event.blockHash>> \in observed
          /\ ~isTxValid(event.blockHash, t)

\* C12 (every accepted event runs to completion): whatever (blockHash, parent)
\* pairs the newBlock events carried, the handler of every event returns: the
\* ancestor replay of onFinalized ends and no isDescendant loop runs forever.
C12_EventsRunToCompletion == pc = "ready"

\* C13 (registry idempotence): a newTransaction event for a tracked value
\* changes nothing (arrival order, settlement records, parents, cursor) and
\* emits nothing; for an untracked value it appends the value at the end of
\* the arrival order with no settlement record, and changes nothing else.
C13_RegistryIdempotence ==
    event.type = "newTransaction" =>
        /\ IF event.value \in Tracked(pre.txMap)
             THEN txMap = pre.txMap
             ELSE /\ Len(txMap) = Len(pre.txMap) + 1
                  /\ SubSeq(txMap, 1, Len(pre.txMap)) = pre.txMap
                  /\ txMap[Len(txMap)].tx = event.value
                  /\ txMap[Len(txMap)].status = << >>
        /\ parentMap = pre.parentMap
        /\ lastFinalized = pre.lastFinalized
        /\ evSettled = << >> /\ evDone = << >> /\ evUnpin = << >>

\* The first of two tracked transactions has been registered again.
C13_Witness ==
    /\ event.type = "newTransaction"
    /\ Len(pre.txMap) = 2
    /\ pre.txMap[1].tx = event.value

\* C14 (settlement record creation): after newBlock(b), a tracked transaction
\* of b's body that had no settlement record has a record for b; one that had
\* records, none of them for an ancestor of b, has exactly one more record, b.
C14_SettlementRecordCreation ==
    NewBlockReturned =>
        \A t \in Tracked(pre.txMap) :
            Includes(getBody(event.blockHash), t) =>
                LET before == StatusOf(pre.txMap, t)
                    after == StatusOf(txMap, t)
                IN /\ before = << >> => Includes(after, event.blockHash)
                   /\ ( /\ before # << >>
                        /\ \A r \in Range(before) :
                              r \notin Ancestors(event.blockHash, parentMap) )
                      => after = Append(before, event.blockHash)

\* C15 (replay order): finalized(blockHash), for a recorded block ahead of the
\* cursor (or with the cursor still the initial sentinel), assigns to
\* lastFinalized exactly the recorded ancestors strictly between the previous
\* cursor and blockHash, oldest first, and then blockHash; it passes no hash
\* to getBody that no newBlock event recorded.
RECURSIVE C15_RecordedPath(_, _, _)
C15_RecordedPath(h, pm, lf) ==
    IF h \notin DOMAIN pm \/ h = lf
      THEN << >>
      ELSE Append(C15_RecordedPath(pm[h], pm, lf), h)

C15_ReplayOrder ==
    ( /\ FinalizedReturned
      /\ event.blockHash \in DOMAIN pre.parentMap
      /\ \/ pre.lastFinalized = NoHash
         \/ pre.lastFinalized \in Ancestors(event.blockHash, pre.parentMap) )
    => /\ cursorTrace = C15_RecordedPath(event.blockHash, pre.parentMap, pre.lastFinalized)
       /\ Range(bodyCalls) \subseteq DOMAIN pre.parentMap

\* C16 (settlement record invariant I1): the settlement records of a tracked
\* transaction never hold, at two distinct positions, the same block or a
\* block and one of its ancestors.
C16_OneRecordPerLineage ==
    \A n \in 1..Len(txMap) :
        LET status == txMap[n].status IN
        \A j, k \in 1..Len(status) :
            j # k => /\ status[j] # status[k]
                     /\ status[j] \notin Ancestors(status[k], parentMap)

\* A tracked transaction has been observed in a block and in one of its
\* proper descendants.
C16_Witness ==
    \E t \in Tracked(txMap), b1, b2 \in Blocks :
        /\ <<t, b1>> \in observed
        /\ <<t, b2>> \in observed
        /\ b1 # b2
        /\ b1 \in Ancestors(b2, parentMap)
        /\ b2 \notin Ancestors(b1, parentMap)

C18_TxOrder(tm) == [i \in 1..Len(tm) |-> tm[i].tx]

C18_DispatcherFrames ==
    /\ event.type = "newTransaction" =>
          /\ parentMap = pre.parentMap
          /\ lastFinalized = pre.lastFinalized
    /\ event.type = "newBlock" =>
          /\ lastFinalized = pre.lastFinalized
          /\ C18_TxOrder(txMap) = C18_TxOrder(pre.txMap)
          /\ DOMAIN parentMap \ {event.blockHash} = DOMAIN pre.parentMap \ {event.blockHash}
          /\ \A k \in DOMAIN pre.parentMap \ {event.blockHash} :
                parentMap[k] = pre.parentMap[k]
    /\ event.type = "finalized" =>
          /\ parentMap = pre.parentMap
          /\ txMap = pre.txMap
          /\ pc = "ready" => lastFinalized = event.blockHash

\* A newBlock event for a new hash, handled with another block recorded and a
\* transaction tracked.
C18_Witness ==
    /\ NewBlockReturned
    /\ event.blockHash \notin DOMAIN pre.parentMap
    /\ DOMAIN pre.parentMap # {}
    /\ Len(pre.txMap) > 0

----------------------------------------------------------------------------
\* The recorded strict ancestors of curBlock that the walk bounded by the
\* cursor covers: all of them when the cursor is not among them, otherwise
\* those from curBlock's parent down to the cursor, the cursor included.
BoundedAncestors(curBlock, pm, lf) ==
    LET all == Ancestors(curBlock, pm) IN
    {a \in all : lf \notin all \/ a = lf \/ lf \in Ancestors(a, pm)}

\* C19: a call isDescendant(curBlock, oldBlock) on an acyclic parent map
\* returns without failing, and returns true exactly when oldBlock is one of
\* the recorded ancestors of curBlock on the walk bounded by lastFinalized
\* (so false for an unrecorded curBlock, for an oldBlock off the chain and
\* for curBlock = oldBlock).
C19_DescendantMatchesReference ==
    answer # "none" =>
        /\ answer \in {"true", "false"}
        /\ (answer = "true") <=>
               (event.parent \in BoundedAncestors(event.blockHash, parentMap, lastFinalized))

====
